---- MODULE Spec2Model ----
(***************************************************************************)
(* Model of the sqldb-postgres capability provider                         *)
(* (src/sqldb-postgres/src/main.rs).                                       *)
(*                                                                         *)
(* The provider keeps one map, actors: actor id -> connection pool,        *)
(* behind a tokio RwLock.  The link handlers (put_link, delete_link,       *)
(* shutdown) take the write lock; the SqlDb operations (execute, fetch)    *)
(* take the read lock and keep the guard rd until they return, because the *)
(* pool they use is borrowed from it.  Every handler invocation runs as    *)
(* its own task.  Tasks have no identity of their own, so the model keeps  *)
(* them by where they are: creating a pool, waiting in the lock's queue,   *)
(* holding a read guard, or holding the write guard.                       *)
(***************************************************************************)
EXTENDS Integers, Sequences, FiniteSets, Bags

\* ---- bounds of the model ----
MaxTasks == 3            \* handler invocations in flight at a time
MaxPoolsPerTenant == 2   \* pools of one tenant that exist at a time
PoolSize == 1            \* connections of a pool
MaxRows == 2             \* rows of a result set
MaxCols == 2             \* columns of a row
MaxAffected == 1         \* rows a statement affects

Tenants == {"A", "B"}
NoActor == "-"
Gens == 1..MaxPoolsPerTenant
Pools == Tenants \X Gens       \* a pool: <<tenant it was created for, n>>
NoPool == <<>>

CallOps == {"execute", "fetch"}

VARIABLES
    actors,        \* the HashMap<String, Pool>: tenant -> pool or NoPool
    live,          \* pools created and not yet dropped
    creating,      \* bag of tenants: put_link tasks inside create_pool
    queue,         \* FIFO of the tasks waiting for the RwLock
    readers,       \* bag of the execute/fetch tasks holding a read guard
    writer,        \* the task holding the write guard, or NoOp
    returned,      \* what the handler that returned in the last step returned
    removedSince,  \* history: tenants whose delete_link returned, no put_link started since
    shutdownDone,  \* history: shutdown has returned
    request,       \* one call with its data: what the pool and the driver answer
    reply          \* the RpcResult that call returns

vars == <<actors, live, creating, queue, readers, writer, returned,
          removedSince, shutdownDone, request, reply>>

callVars == <<request, reply>>

lockVars == <<queue, readers, writer>>
histVars == <<removedSince, shutdownDone>>

\* a task at the lock: its operation, its actor id, its pool local
Task(o, a, p) == [op |-> o, actor |-> a, pool |-> p]
NoOp == Task("none", NoActor, NoPool)

\* an execute/fetch task holding the read guard, at position c
Reader(o, a, c, p) == [op |-> o, actor |-> a, pc |-> c, pool |-> p]

One(x) == SetToBag({x})

InFlight ==
    BagCardinality(creating) + Len(queue) + BagCardinality(readers)
        + (IF writer = NoOp THEN 0 ELSE 1)

\* ---- the RwLock (tokio::sync::RwLock: fair, FIFO, write-preferring) ----

RECURSIVE Granted(_, _, _)
\* Hand the lock to the waiters at the head of the queue, in order, as far
\* as the holders allow.
Granted(rs, w, q) ==
    IF q = <<>> \/ w # NoOp
    THEN [readers |-> rs, writer |-> w, queue |-> q]
    ELSE IF Head(q).op \in CallOps
         THEN Granted(rs (+) One(Reader(Head(q).op, Head(q).actor, "lookup", NoPool)),
                      w, Tail(q))
         ELSE IF BagToSet(rs) = {}
              THEN [readers |-> rs, writer |-> Head(q), queue |-> Tail(q)]
              ELSE [readers |-> rs, writer |-> w, queue |-> q]

\* self.actors.read().await by a task running o for actor a
TryRead(o, a) ==
    IF writer = NoOp /\ queue = <<>>
    THEN /\ readers' = readers (+) One(Reader(o, a, "lookup", NoPool))
         /\ UNCHANGED <<writer, queue>>
    ELSE /\ queue' = Append(queue, Task(o, a, NoPool))
         /\ UNCHANGED <<readers, writer>>

TryWriteBarging(w) ==
    IF writer = NoOp /\ queue = <<>>
    THEN /\ writer' = w
         /\ UNCHANGED <<readers, queue>>
    ELSE /\ queue' = Append(queue, w)
         /\ UNCHANGED <<readers, writer>>

\* self.actors.write().await by task w
TryWrite(w) ==
    IF writer = NoOp /\ BagToSet(readers) = {} /\ queue = <<>>
    THEN /\ writer' = w
         /\ UNCHANGED <<readers, queue>>
    ELSE /\ queue' = Append(queue, w)
         /\ UNCHANGED <<readers, writer>>

\* a release that wakes nobody
ReleaseReadNoWake(r) ==
    /\ readers' = readers (-) One(r)
    /\ UNCHANGED <<writer, queue>>

\* drop of the read guard rd of reader r
ReleaseRead(r) ==
    LET g == Granted(readers (-) One(r), writer, queue)
    IN  /\ readers' = g.readers
        /\ writer' = g.writer
        /\ queue' = g.queue

\* drop of the write guard
ReleaseWrite ==
    LET g == Granted(readers, NoOp, queue)
    IN  /\ readers' = g.readers
        /\ writer' = g.writer
        /\ queue' = g.queue

\* ---- the map and the pools ----

\* a lookup that falls back to whatever pool the map has
MapGetOrAny(m, id) ==
    IF m[id] # NoPool \/ \A t \in DOMAIN m : m[t] = NoPool
    THEN m[id]
    ELSE m[CHOOSE t \in DOMAIN m : m[t] # NoPool]

\* rd.get(actor_id)
MapGet(m, id) == m[id]

\* an insert that keeps an existing entry (entry(id).or_insert(p))
MapInsertIfAbsent(m, id, p) == IF m[id] = NoPool THEN [m EXCEPT ![id] = p] ELSE m

\* an insert under one fixed key instead of the link's actor id
MapInsertFixedKey(m, id, p) == [m EXCEPT ![CHOOSE t \in DOMAIN m : TRUE] = p]

\* an insert that rebuilds the map with the one entry
MapInsertOnly(m, id, p) == [t \in DOMAIN m |-> IF t = id THEN p ELSE NoPool]

\* update_map.insert(id, p)
MapInsert(m, id, p) == [m EXCEPT ![id] = p]

\* an insert whose previous value is kept alive instead of dropped
DroppedByInsertNone(m, id) == {}

\* the value insert returns, dropped at the end of the statement
DroppedByInsert(m, id) == {m[id]} \ {NoPool}

\* a remove that clears the whole map (aw.clear())
MapRemoveAll(m, id) == [t \in DOMAIN m |-> NoPool]

\* aw.remove(id)
MapRemove(m, id) == [m EXCEPT ![id] = NoPool]

\* the pool taken out by remove and dropped
DroppedByRemove(m, id) == {m[id]} \ {NoPool}

\* aw.drain()
MapDrain(m) == [t \in DOMAIN m |-> NoPool]

\* the pools taken out by drain and dropped
DroppedByDrain(m) == {m[t] : t \in DOMAIN m} \ {NoPool}

\* the pools the map holds
Registered == {actors[t] : t \in Tenants} \ {NoPool}

\* the readers that hold a connection of pool p
Borrowers(p) == {r \in BagToSet(readers) : r.pc = "run" /\ r.pool = p}

RECURSIVE CopiesOf(_)
CopiesOf(S) ==
    IF S = {} THEN 0
    ELSE LET r == CHOOSE x \in S : TRUE
         IN  CopiesIn(r, readers) + CopiesOf(S \ {r})

\* connections of pool p that are borrowed
InUse(p) == CopiesOf(Borrowers(p))

\* the pool a create_pool for tenant t returns: one that does not exist yet
CanCreate(t) == \E g \in Gens : <<t, g>> \notin live
FreshPool(t) == <<t, CHOOSE g \in Gens : /\ <<t, g>> \notin live
                                         /\ \A h \in Gens : <<t, h>> \notin live => g <= h>>

\* ---- initial state: SqlDbProvider::default() ----

NoReturn == [op |-> "none", actor |-> NoActor, result |-> "none", branch |-> "none"]

NoRequest == [op |-> "none"]
NoReply == [rpc |-> "none"]

ProviderInit ==
    /\ actors = [t \in Tenants |-> NoPool]
    /\ live = {}
    /\ creating = EmptyBag
    /\ queue = <<>>
    /\ readers = EmptyBag
    /\ writer = NoOp
    /\ returned = NoReturn
    /\ removedSince = {}
    /\ shutdownDone = FALSE

Init ==
    /\ ProviderInit
    /\ request = NoRequest
    /\ reply = NoReply

\* a handler returns result r to its caller
Return(o, a, r, b) == returned' = [op |-> o, actor |-> a, result |-> r, branch |-> b]

\* ---- execute / fetch ----

\* entry of execute/fetch: actor_id(ctx)?, then self.actors.read().await
StartCall(o, a) ==
    /\ InFlight < MaxTasks
    /\ IF a = NoActor
       THEN /\ Return(o, a, "NoActor", "none")
            /\ UNCHANGED lockVars
       ELSE /\ returned' = NoReturn
            /\ TryRead(o, a)
    /\ UNCHANGED <<actors, live, creating, histVars>>
    /\ UNCHANGED callVars

\* rd.get(actor_id).ok_or_else(..)?  and the start of pool.get()
Lookup(r) ==
    /\ BagIn(r, readers)
    /\ r.pc = "lookup"
    /\ LET p == MapGet(actors, r.actor)
       IN IF p = NoPool
          THEN /\ Return(r.op, r.actor, "NotLinked", "none")
               /\ ReleaseRead(r)
          ELSE /\ returned' = NoReturn
               /\ readers' = (readers (-) One(r)) (+) One(Reader(r.op, r.actor, "get_conn", p))
               /\ UNCHANGED <<queue, writer>>
    /\ UNCHANGED <<actors, live, creating, histVars>>
    /\ UNCHANGED callVars

\* pool.get().await
GetConn(r, ok) ==
    /\ BagIn(r, readers)
    /\ r.pc = "get_conn"
    /\ IF ok
       THEN /\ InUse(r.pool) < PoolSize
            /\ returned' = NoReturn
            /\ readers' = (readers (-) One(r)) (+) One([r EXCEPT !.pc = "run"])
            /\ UNCHANGED <<queue, writer>>
       ELSE /\ Return(r.op, r.actor, "PoolErr", "none")
            /\ ReleaseRead(r)
    /\ UNCHANGED <<actors, live, creating, histVars>>
    /\ UNCHANGED callVars

\* conn.execute(..).await and the return of execute
ExecuteRun(r, res) ==
    /\ BagIn(r, readers)
    /\ r.pc = "run"
    /\ r.op = "execute"
    /\ Return(r.op, r.actor, res, "none")
    /\ ReleaseRead(r)
    /\ UNCHANGED <<actors, live, creating, histVars>>
    /\ UNCHANGED callVars

\* conn.query(..).await, the assembly of the FetchResult, the return of fetch
FetchRun(r, res) ==
    /\ BagIn(r, readers)
    /\ r.pc = "run"
    /\ r.op = "fetch"
    /\ Return(r.op, r.actor, res, "none")
    /\ ReleaseRead(r)
    /\ UNCHANGED <<actors, live, creating, histVars>>
    /\ UNCHANGED callVars

\* ---- put_link ----

\* a put_link that takes the write lock on entry and builds its pool under it
PutLinkEntryLocked(t, cfgOk) ==
    /\ InFlight < MaxTasks
    /\ IF cfgOk
       THEN /\ returned' = NoReturn
            /\ creating' = creating (+) One(t)
            /\ TryWrite(Task("put_link", t, NoPool))
       ELSE /\ Return("put_link", t, "LinkErr", "config")
            /\ UNCHANGED <<creating, lockVars>>
    /\ UNCHANGED <<actors, live>>
    /\ UNCHANGED callVars

\* entry of put_link: config::load_config(ld)?
PutLinkEntry(t, cfgOk) ==
    /\ InFlight < MaxTasks
    /\ IF cfgOk
       THEN /\ returned' = NoReturn
            /\ creating' = creating (+) One(t)
       ELSE /\ Return("put_link", t, "LinkErr", "config")
            /\ UNCHANGED creating
    /\ UNCHANGED <<actors, live, lockVars>>
    /\ UNCHANGED callVars

StartPutLink(t, cfgOk) ==
    /\ PutLinkEntry(t, cfgOk)
    /\ UNCHANGED histVars

CreatePoolUnlinksOnFailure(t, ok) ==
    /\ BagIn(t, creating)
    /\ creating' = creating (-) One(t)
    /\ IF ok
       THEN /\ CanCreate(t)
            /\ returned' = NoReturn
            /\ live' = live \cup {FreshPool(t)}
            /\ actors' = actors
            /\ TryWrite(Task("put_link", t, FreshPool(t)))
       ELSE /\ Return("put_link", t, "LinkErr", "pool")
            /\ actors' = MapRemove(actors, t)
            /\ live' = live \ DroppedByRemove(actors, t)
            /\ UNCHANGED lockVars
    /\ UNCHANGED histVars
    /\ UNCHANGED callVars

\* config::create_pool(config).await?  then self.actors.write().await
CreatePool(t, ok) ==
    /\ BagIn(t, creating)
    /\ creating' = creating (-) One(t)
    /\ IF ok
       THEN /\ CanCreate(t)
            /\ returned' = NoReturn
            /\ live' = live \cup {FreshPool(t)}
            /\ TryWrite(Task("put_link", t, FreshPool(t)))
       ELSE /\ Return("put_link", t, "LinkErr", "pool")
            /\ UNCHANGED <<live, lockVars>>
    /\ UNCHANGED <<actors, histVars>>
    /\ UNCHANGED callVars

\* update_map.insert(ld.actor_id.to_string(), pool); Ok(true)
Insert ==
    /\ writer.op = "put_link"
    /\ actors' = MapInsert(actors, writer.actor, writer.pool)
    /\ live' = live \ DroppedByInsert(actors, writer.actor)
    /\ Return("put_link", writer.actor, "LinkOk",
              IF actors[writer.actor] = NoPool THEN "fresh" ELSE "replaced")
    /\ ReleaseWrite
    /\ UNCHANGED <<creating, histVars>>
    /\ UNCHANGED callVars

\* ---- delete_link ----

\* entry of delete_link: self.actors.write().await
StartDeleteLink(t) ==
    /\ InFlight < MaxTasks
    /\ returned' = NoReturn
    /\ TryWrite(Task("delete_link", t, NoPool))
    /\ UNCHANGED <<actors, live, creating, histVars>>
    /\ UNCHANGED callVars

\* if let Some(conn) = aw.remove(actor_id) { drop(conn) }
RemoveLink ==
    /\ writer.op = "delete_link"
    /\ actors' = MapRemove(actors, writer.actor)
    /\ live' = live \ DroppedByRemove(actors, writer.actor)
    /\ Return("delete_link", writer.actor, "Unit",
              IF actors[writer.actor] = NoPool THEN "absent" ELSE "removed")
    /\ ReleaseWrite
    /\ UNCHANGED creating
    /\ UNCHANGED callVars

Remove ==
    /\ RemoveLink
    /\ UNCHANGED histVars

\* ---- shutdown ----

\* entry of shutdown: self.actors.write().await
StartShutdown ==
    /\ InFlight < MaxTasks
    /\ returned' = NoReturn
    /\ TryWrite(Task("shutdown", NoActor, NoPool))
    /\ UNCHANGED <<actors, live, creating, histVars>>
    /\ UNCHANGED callVars

\* for (_, conn) in aw.drain() { drop(conn) }; Ok(())
DrainAll ==
    /\ writer.op = "shutdown"
    /\ actors' = MapDrain(actors)
    /\ live' = live \ DroppedByDrain(actors)
    /\ Return("shutdown", NoActor, "Unit", "none")
    /\ ReleaseWrite
    /\ UNCHANGED creating
    /\ UNCHANGED callVars

Drain ==
    /\ DrainAll
    /\ UNCHANGED histVars

ExecuteResults == {"Ok", "DbErr"}
FetchResults == {"Empty", "Rows", "EncodingErr", "DbErr"}

Next ==
    \/ \E o \in CallOps, a \in Tenants \cup {NoActor} : StartCall(o, a)
    \/ \E r \in BagToSet(readers) : Lookup(r)
    \/ \E r \in BagToSet(readers), ok \in BOOLEAN : GetConn(r, ok)
    \/ \E r \in BagToSet(readers), res \in ExecuteResults : ExecuteRun(r, res)
    \/ \E r \in BagToSet(readers), res \in FetchResults : FetchRun(r, res)
    \/ \E t \in Tenants, cfgOk \in BOOLEAN : StartPutLink(t, cfgOk)
    \/ \E t \in Tenants, ok \in BOOLEAN : CreatePool(t, ok)
    \/ Insert
    \/ \E t \in Tenants : StartDeleteLink(t)
    \/ Remove
    \/ StartShutdown
    \/ Drain

Spec == Init /\ [][Next]_vars

\* ---- the same program under a fair scheduler ----

\* the next step of a call of tenant a: the lookup, the pool's answer, the
\* driver's answer
CallStep(o, a) ==
    \E r \in BagToSet(readers) :
        /\ r.op = o /\ r.actor = a
        /\ \/ Lookup(r)
           \/ \E ok \in BOOLEAN : GetConn(r, ok)
           \/ \E res \in ExecuteResults : ExecuteRun(r, res)
           \/ \E res \in FetchResults : FetchRun(r, res)

\* create_pool of a put_link answers
LinkStep(t) == \E ok \in BOOLEAN : CreatePool(t, ok)

\* the holder of the write lock does its map operation and returns
WriterStep == Insert \/ Remove \/ Drain

\* the executor runs every task that can run, and the pool and the database
\* answer every call
Fairness ==
    /\ \A o \in CallOps, a \in Tenants : WF_vars(CallStep(o, a))
    /\ \A t \in Tenants : WF_vars(LinkStep(t))
    /\ WF_vars(WriterStep)

SpecFair == Spec /\ Fairness

\* ---- the same program with its history recorded ----

StartPutLinkH(t, cfgOk) ==
    /\ PutLinkEntry(t, cfgOk)
    /\ removedSince' = removedSince \ {t}
    /\ UNCHANGED shutdownDone

RemoveH ==
    /\ RemoveLink
    /\ removedSince' = removedSince \cup {writer.actor}
    /\ UNCHANGED shutdownDone

DrainH ==
    /\ DrainAll
    /\ shutdownDone' = TRUE
    /\ UNCHANGED removedSince

NextHist ==
    \/ \E o \in CallOps, a \in Tenants \cup {NoActor} : StartCall(o, a)
    \/ \E r \in BagToSet(readers) : Lookup(r)
    \/ \E r \in BagToSet(readers), ok \in BOOLEAN : GetConn(r, ok)
    \/ \E r \in BagToSet(readers), res \in ExecuteResults : ExecuteRun(r, res)
    \/ \E r \in BagToSet(readers), res \in FetchResults : FetchRun(r, res)
    \/ \E t \in Tenants, cfgOk \in BOOLEAN : StartPutLinkH(t, cfgOk)
    \/ \E t \in Tenants, ok \in BOOLEAN : CreatePool(t, ok)
    \/ Insert
    \/ \E t \in Tenants : StartDeleteLink(t)
    \/ RemoveH
    \/ StartShutdown
    \/ DrainH

SpecHist == Init /\ [][NextHist]_vars

\* ---- one call with its data: the values execute and fetch return ----

providerVars == <<actors, live, creating, queue, readers, writer, returned,
                  removedSince, shutdownDone>>

\* the columns the database reports for a row: name and type
ColumnKinds == {[name |-> "id", type |-> "int4"], [name |-> "v", type |-> "text"]}
SeqsUpTo(S, n) == UNION {[1..k -> S] : k \in 0..n}
RowShapes == SeqsUpTo(ColumnKinds, MaxCols)
\* the rows of one result: all of them have the columns of the statement
ResultSets == {[i \in 1..k |-> s] : s \in RowShapes, k \in 0..MaxRows}

NoError == "none"

\* RpcResult: Ok(value) or Err(RpcError)
RpcOk(v) == [rpc |-> "Ok", value |-> v]
RpcErr(e) == [rpc |-> "Err", error |-> e]

\* Default::default() of the two result structures
ExecuteDefault == [rows_affected |-> 0, error |-> NoError]
FetchDefault == [columns |-> <<>>, num_rows |-> 0, error |-> NoError, rows |-> <<>>]

\* the buffer types::encode_rows fills: one array per row, one tagged cell per column
EncodeRows(rows) == [i \in 1..Len(rows) |-> [j \in 1..Len(rows[i]) |-> rows[i][j].type]]

\* encode_result_set: the buffer, or DbError::Encoding when encode_rows fails
EncodeResultSet(rows, encOk) ==
    IF encOk THEN [ok |-> TRUE, buf |-> EncodeRows(rows)]
    ELSE [ok |-> FALSE, error |-> "Encoding"]

ColumnsOneBased(row) ==
    [i \in 1..Len(row) |->
        [name |-> row[i].name, ordinal |-> i, db_type |-> row[i].type]]

\* the descriptors of a row's columns: enumerate() numbers them from 0
\* (the cast to u32 keeps every index below MaxCols)
Columns(row) ==
    [i \in 1..Len(row) |->
        [name |-> row[i].name, ordinal |-> i - 1, db_type |-> row[i].type]]

PoolFailureAsRpcError(default) == RpcErr("Io")

\* pool.get() failed
PoolFailure(default) == RpcOk([default EXCEPT !.error = "Io"])

\* the driver rejected the statement
DriverFailure(default) == RpcOk([default EXCEPT !.error = "Db"])

ExecuteOkNoCount(res) == RpcOk(ExecuteDefault)

\* conn.execute returned Ok(res)
ExecuteOk(res) == RpcOk([ExecuteDefault EXCEPT !.rows_affected = res])

FetchOkOffByOne(cols, rows, buf) ==
    RpcOk([columns |-> cols, num_rows |-> Len(rows) - 1, error |-> NoError, rows |-> buf])

\* conn.query returned rows and they were encoded
FetchOk(cols, rows, buf) ==
    RpcOk([columns |-> cols, num_rows |-> Len(rows), error |-> NoError, rows |-> buf])

EncodingFailureKeepsColumns(cols, e) ==
    RpcOk([FetchDefault EXCEPT !.error = e, !.columns = cols])

\* encode_result_set failed; cols is in scope and is dropped
EncodingFailure(cols, e) == RpcOk([FetchDefault EXCEPT !.error = e])

Execute(q) ==
    IF ~q.actor THEN RpcErr("no actor in request")
    ELSE IF ~q.linked THEN RpcErr("actor not linked")
    ELSE IF ~q.conn THEN PoolFailure(ExecuteDefault)
    ELSE IF q.driver THEN ExecuteOk(q.affected)
    ELSE DriverFailure(ExecuteDefault)

Fetch(q) ==
    IF ~q.actor THEN RpcErr("no actor in request")
    ELSE IF ~q.linked THEN RpcErr("actor not linked")
    ELSE IF ~q.conn THEN PoolFailure(FetchDefault)
    ELSE IF ~q.driver THEN DriverFailure(FetchDefault)
    ELSE IF q.rows = <<>> THEN RpcOk(FetchDefault)
    ELSE LET cols == Columns(q.rows[1])
             enc == EncodeResultSet(q.rows, q.encOk)
         IN  IF enc.ok THEN FetchOk(cols, q.rows, enc.buf)
             ELSE EncodingFailure(cols, enc.error)

\* what a call meets: a caller in the context, an entry in the map, a
\* connection from the pool, the driver's answer, the encoder's answer
ExecuteRequests ==
    [op : {"execute"}, actor : BOOLEAN, linked : BOOLEAN, conn : BOOLEAN,
     driver : BOOLEAN, affected : 0..MaxAffected]
FetchRequests ==
    [op : {"fetch"}, actor : BOOLEAN, linked : BOOLEAN, conn : BOOLEAN,
     driver : BOOLEAN, rows : ResultSets, encOk : BOOLEAN]

InitCall ==
    /\ ProviderInit
    /\ request \in ExecuteRequests \cup FetchRequests
    /\ reply = NoReply

CallExecute ==
    /\ request.op = "execute"
    /\ reply = NoReply
    /\ reply' = Execute(request)
    /\ UNCHANGED <<request, providerVars>>

CallFetch ==
    /\ request.op = "fetch"
    /\ reply = NoReply
    /\ reply' = Fetch(request)
    /\ UNCHANGED <<request, providerVars>>

NextCall == CallExecute \/ CallFetch

SpecCall == InitCall /\ [][NextCall]_vars

TypeOK ==
    /\ actors \in [Tenants -> Pools \cup {NoPool}]
    /\ live \subseteq Pools
    /\ (writer # NoOp => BagToSet(readers) = {})
    /\ InFlight <= MaxTasks

\* ---- properties ----

Holders == BagToSet(readers)
CopyCount(r, b) == IF BagIn(r, b) THEN CopiesIn(r, b) ELSE 0
Waiting == {queue[i] : i \in 1..Len(queue)}
AtDatabase(r) == r.pc \in {"get_conn", "run"}
CallReturned == returned.op \in CallOps /\ returned.actor \in Tenants

\* C1: a call for a tenant that has no entry in the map returns NotLinked,
\* and no call for such a tenant is acquiring a connection or at the database.
NotLinkedWhenAbsent ==
    /\ \A r \in Holders : AtDatabase(r) => actors[r.actor] # NoPool
    /\ (CallReturned /\ actors[returned.actor] = NoPool) => returned.result = "NotLinked"

NotLinkedWitness ==
    /\ CallReturned
    /\ returned.result = "NotLinked"
    /\ actors[returned.actor] = NoPool
    /\ Registered # {}

\* C2: when put_link has returned true its pool is in the map under the
\* link's actor id; the entry stays until delete_link of that tenant or
\* shutdown mutates the map; and while the entry is there every call on the
\* tenant resolves exactly that pool and goes on to the database layer
\* instead of returning NotLinked.
LinkInstalled ==
    (returned.op = "put_link" /\ returned.result = "LinkOk")
        => (actors[returned.actor] \in live /\ actors[returned.actor][1] = returned.actor)

LinkResolved ==
    /\ \A r \in Holders : AtDatabase(r) => (r.pool # NoPool /\ r.pool = actors[r.actor])
    /\ (CallReturned /\ actors[returned.actor] # NoPool) => returned.result # "NotLinked"

LinkKept ==
    \A t \in Tenants :
        (actors[t] # NoPool /\ actors'[t] = NoPool)
            => \/ writer.op = "delete_link" /\ writer.actor = t
               \/ writer.op = "shutdown"

\* C2: the three parts together: installed on return, kept until removed,
\* resolved by every call while it is there.
LinkedIsServed == [](LinkInstalled /\ LinkResolved) /\ [][LinkKept]_vars

LinkedIsServedWitness ==
    \E r \in Holders : /\ r.pc = "run"
                       /\ r.pool = actors[r.actor]
                       /\ r.pool[1] = r.actor

\* C3: once delete_link(T) has returned and no put_link(T) has been started
\* since, T has no entry, so that a call on T that starts now returns
\* NotLinked (put_link calls that were already in flight are allowed).
RemovedStaysUnlinked ==
    \A t \in removedSince : MapGet(actors, t) = NoPool

\* C4: once shutdown has returned the map is empty and stays empty, so that
\* every call that starts afterwards returns NotLinked.
EmptyAfterShutdown ==
    shutdownDone => \A t \in Tenants : MapGet(actors, t) = NoPool

\* C5: a call that is waiting for a pooled connection or running its
\* statement does not hold the registry lock (readers are the holders of a
\* read guard).
NoLockAcrossIO ==
    \A r \in Holders : ~AtDatabase(r)

\* C6: while tenant A has a query in flight on a saturated pool, no call of
\* another tenant B is kept waiting for the registry lock (a call waits in
\* the queue only behind a writer, and that writer waits for A's guard).
TenantsDoNotBlock ==
    \A r \in Holders :
        (r.pc = "run" /\ InUse(r.pool) = PoolSize)
            => \A w \in Waiting : w.op \in CallOps => w.actor = r.actor

\* C7: while a call uses its borrowed connection, no writer is waiting to
\* acquire the write lock and no lookup is waiting behind one.
WritersWaitOnlyForMutation ==
    (\E r \in Holders : r.pc = "run") => queue = <<>>

\* C8: whenever no lifecycle operation is in progress, the pools created and
\* not yet released are exactly the pools in the map, and no tenant has two.
LifecycleIdle ==
    /\ BagToSet(creating) = {}
    /\ writer = NoOp
    /\ \A w \in Waiting : w.op \in CallOps

\* C8: no pool leaked and no tenant with two pools when the lifecycle
\* handlers are idle.
NoPoolLeaked ==
    LifecycleIdle =>
        /\ live = Registered
        /\ \A t \in Tenants : Cardinality({p \in live : p[1] = t}) <= 1

NoPoolLeakedWitness ==
    /\ LifecycleIdle
    /\ returned.op = "put_link"
    /\ returned.branch = "replaced"
    /\ \A t \in Tenants : actors[t] # NoPool

\* C9: a put_link that returns true for a tenant that already has a pool
\* leaves the map with the new pool under that tenant, the previous pool
\* released, and every other tenant's entry as it was.
ReplaceStep ==
    (returned'.op = "put_link" /\ returned'.result = "LinkOk"
        /\ actors[returned'.actor] # NoPool)
    => /\ writer.op = "put_link"
       /\ returned'.actor = writer.actor
       /\ actors'[writer.actor] = writer.pool
       /\ writer.pool # actors[writer.actor]
       /\ writer.pool \in live'
       /\ actors[writer.actor] \notin live'
       /\ \A u \in Tenants \ {writer.actor} : actors'[u] = actors[u]

\* C9: every step in which put_link returns true over an existing entry is
\* a replacement.
PutLinkReplaces == [][ReplaceStep]_vars

PutLinkReplacesWitness ==
    /\ returned.op = "put_link"
    /\ returned.branch = "replaced"
    /\ actors[returned.actor] \in live
    /\ \E u \in Tenants \ {returned.actor} : actors[u] # NoPool

\* C10: delete_link of a tenant that has no entry returns normally and
\* leaves the map and the pools as they were, and removing a tenant twice
\* gives the same map as removing it once.
DeleteAbsentStep ==
    (returned'.op = "delete_link" /\ actors[returned'.actor] = NoPool)
    => /\ returned'.result = "Unit"
       /\ actors' = actors
       /\ live' = live

RemoveTwice ==
    \A t \in Tenants :
        /\ MapRemove(MapRemove(actors, t), t) = MapRemove(actors, t)
        /\ DroppedByRemove(MapRemove(actors, t), t) = {}

\* C10: delete_link of an absent tenant changes nothing, and a second
\* removal changes nothing.
DeleteLinkIdempotent == []RemoveTwice /\ [][DeleteAbsentStep]_vars

DeleteLinkIdempotentWitness ==
    /\ returned.op = "delete_link"
    /\ returned.branch = "absent"
    /\ Registered # {}

\* ---- the values a call returns ----

Replied == reply # NoReply
Resolved == request.actor /\ request.linked
\* the call went wrong after its pool was found
FailedAfterResolve ==
    \/ ~request.conn
    \/ ~request.driver
    \/ request.op = "fetch" /\ request.rows # <<>> /\ ~request.encOk

\* C11: a call whose tenant was resolved never returns an RpcError: it
\* returns Ok, and when the pool, the driver or the encoder failed the
\* error field of the result is set.
FailuresInBand ==
    (Replied /\ Resolved) =>
        /\ reply.rpc = "Ok"
        /\ FailedAfterResolve => reply.value.error # NoError

FailuresInBandWitness ==
    /\ Replied /\ Resolved
    /\ ~request.conn
    /\ reply.rpc = "Ok"
    /\ reply.value.error = "Io"

\* ---- put_link that fails ----

\* C12: a put_link that returns an error, for a config that does not load
\* or a pool that cannot be created, leaves the map and the open pools as
\* they were: nothing is inserted, and the pool the tenant had stays
\* registered and open.
FailedLinkStep ==
    (returned'.op = "put_link" /\ returned'.result = "LinkErr") =>
        /\ actors' = actors
        /\ live' = live

FailedLinkKeepsRegistry == [][FailedLinkStep]_vars

FailedLinkKeepsRegistryWitness ==
    /\ returned.op = "put_link"
    /\ returned.result = "LinkErr"
    /\ returned.branch = "pool"
    /\ actors[returned.actor] \in live

\* ---- calls in flight and the lifecycle handlers ----

\* a reader that was at the database and has left it in this step
Finished(r) == CopyCount(r, readers') < CopyCount(r, readers)

\* C13: the pool of a call that is acquiring a connection or running its
\* statement is open, delete_link and shutdown change the map only when no
\* call is at the database, and a call leaves its statement only by
\* returning what the driver answered.
InFlightPoolOpen ==
    /\ \A r \in Holders : AtDatabase(r) => r.pool \in live
    /\ writer.op \in {"delete_link", "shutdown"} => Holders = {}

RunsToCompletion ==
    \A r \in Holders : (r.pc = "run" /\ Finished(r)) =>
        /\ returned'.op = r.op
        /\ returned'.actor = r.actor
        /\ returned'.result \in ExecuteResults \cup FetchResults
        /\ r.pool \in live

NoAbortInFlight == []InFlightPoolOpen /\ [][RunsToCompletion]_vars

NoAbortInFlightWitness ==
    /\ \E r \in Holders : r.pc = "run"
    /\ \E w \in Waiting : w.op \in {"delete_link", "shutdown"}

\* ---- the result structures ----

ExecuteReplied == Replied /\ request.op = "execute" /\ reply.rpc = "Ok"
FetchReplied == Replied /\ request.op = "fetch" /\ reply.rpc = "Ok"

\* C14: an ExecuteResult never carries both a count and an error: with an
\* error the count is 0, and when the driver ran the statement the error is
\* absent and the count is the one the driver reported.
CountOrError ==
    ExecuteReplied =>
        /\ reply.value.error # NoError => reply.value.rows_affected = 0
        /\ (request.conn /\ request.driver) =>
              /\ reply.value.error = NoError
              /\ reply.value.rows_affected = request.affected

CountOrErrorWitness ==
    /\ ExecuteReplied
    /\ reply.value.error = NoError
    /\ reply.value.rows_affected = MaxAffected

Empty(v) == v.num_rows = 0 /\ v.columns = <<>> /\ v.rows = <<>>

\* C15: a FetchResult with num_rows 0 has no columns and an empty buffer;
\* a query without rows returns exactly that and no error, and every result
\* with an error (pool, driver, encoder) has num_rows 0, no columns and an
\* empty buffer.
ZeroRowsIsEmpty ==
    FetchReplied =>
        /\ reply.value.num_rows = 0 => Empty(reply.value)
        /\ (request.conn /\ request.driver /\ request.rows = <<>>) =>
              Empty(reply.value) /\ reply.value.error = NoError
        /\ reply.value.error # NoError => Empty(reply.value)

ZeroRowsIsEmptyWitness ==
    /\ FetchReplied
    /\ request.conn /\ request.driver /\ request.rows = <<>>
    /\ reply.value = FetchDefault

\* the query returned rows and the encoder took them
FetchSucceeded ==
    /\ FetchReplied
    /\ request.conn /\ request.driver /\ request.rows # <<>> /\ request.encOk

\* C16: a fetch of r >= 1 rows whose first row has n columns returns
\* num_rows = r and n descriptors, the i-th with ordinal i (from 0) and the
\* name and type of the i-th column of the first row.
ColumnsOfFirstRow ==
    FetchSucceeded =>
        LET first == request.rows[1]
            cols == reply.value.columns
        IN  /\ reply.value.error = NoError
            /\ reply.value.num_rows = Len(request.rows)
            /\ Len(cols) = Len(first)
            /\ \A i \in 1..Len(first) :
                  /\ cols[i].ordinal = i - 1
                  /\ cols[i].name = first[i].name
                  /\ cols[i].db_type = first[i].type

ColumnsOfFirstRowWitness ==
    /\ FetchSucceeded
    /\ Len(request.rows) = MaxRows
    /\ Len(reply.value.columns) = MaxCols
    /\ reply.value.columns[1].name # reply.value.columns[MaxCols].name

\* C17: when the encoder fails the fetch returns a result with the error
\* set and nothing else: no rows, no columns, num_rows 0.
EncodingFailureIsTerminal ==
    (FetchReplied /\ request.conn /\ request.driver
        /\ request.rows # <<>> /\ ~request.encOk) =>
        /\ reply.value.error = "Encoding"
        /\ Empty(reply.value)

EncodingFailureIsTerminalWitness ==
    /\ FetchReplied
    /\ reply.value.error = "Encoding"
    /\ Len(request.rows[1]) = MaxCols

\* ---- what each handler changes ----

Changed == {t \in Tenants : actors'[t] # actors[t]}

\* C18: a step of execute or fetch, whatever it returns, leaves the map as
\* it is; put_link(T) and delete_link(T) change at most the entry of T; a
\* step that changes the entries of several tenants is shutdown's.
FrameStep ==
    /\ returned'.op \in CallOps => actors' = actors
    /\ Changed # {} => writer.op \in {"put_link", "delete_link", "shutdown"}
    /\ writer.op \in {"put_link", "delete_link"} => Changed \subseteq {writer.actor}
    /\ Cardinality(Changed) > 1 => writer.op = "shutdown"

OnlyOwnEntryChanges == [][FrameStep]_vars

OnlyOwnEntryChangesWitness ==
    /\ returned.op = "put_link"
    /\ returned.branch = "fresh"
    /\ \A t \in Tenants : actors[t] \in live

\* ---- put_link and the lock ----

LinkWriters == {w \in Waiting \cup {writer} : w.op = "put_link"}

\* C20: a put_link asks for the write lock only once its pool is built:
\* every put_link that holds or awaits the lock carries an open pool that
\* is not in the map yet, and a put_link that fails on its config or its
\* pool returns without a step on the lock.
LinkLocksWithPool ==
    \A w \in LinkWriters : w.pool \in live /\ w.pool \notin Registered

FailedLinkStepNoLock ==
    (returned'.op = "put_link" /\ returned'.result = "LinkErr") =>
        UNCHANGED lockVars

PoolBuiltBeforeLock == []LinkLocksWithPool /\ [][FailedLinkStepNoLock]_vars

PoolBuiltBeforeLockWitness ==
    /\ BagToSet(creating) # {}
    /\ writer = NoOp /\ queue = <<>>
    /\ \E r \in Holders : r.pc = "run"

\* ---- termination ----

CallsInFlight(o, a) ==
    \E x \in Holders \cup Waiting : x.op = o /\ x.actor = a
LinksInFlight(t) ==
    \/ BagIn(t, creating)
    \/ \E w \in Waiting \cup {writer} : w.op = "put_link" /\ w.actor = t
UnlinksInFlight(t) ==
    \E w \in Waiting \cup {writer} : w.op = "delete_link" /\ w.actor = t
ShutdownsInFlight ==
    \E w \in Waiting \cup {writer} : w.op = "shutdown"

====
